---- MODULE Spec2Model ----
(***************************************************************************)
(* Model of iob.py: the gamma-variate Insulin-On-Board calculator.         *)
(*                                                                         *)
(* The program is a set of pure functions over Python floats.  A float is  *)
(* modelled as a decimal floating point number [m, e] of value m * 10^e    *)
(* whose mantissa m is 0 or has exactly eight significant digits; every    *)
(* arithmetic operation rounds its result to eight digits, as binary64     *)
(* rounds to 53 bits.  Each behaviour of a specification is one call:      *)
(* Init draws the arguments, the action applies the function and stores    *)
(* what it returned or raised.                                             *)
(***************************************************************************)
EXTENDS Integers, Sequences, FiniteSets, TLC

\* ------------------------------------------------------------------ floats

MantLo == 10^7
MantHi == 10^8

Abs(i) == IF i < 0 THEN -i ELSE i
Sgn(i) == IF i < 0 THEN -1 ELSE IF i = 0 THEN 0 ELSE 1

Pow10(k) == 10^k

\* n / d rounded to the nearest integer, ties to even (n >= 0, d > 0).
RoundDiv(n, d) ==
    LET q == n \div d
        r == n % d
    IN IF 2 * r > d \/ (2 * r = d /\ q % 2 = 1) THEN q + 1 ELSE q

Zero == [m |-> 0, e |-> 0]

\* The float nearest to m * 10^e.
RECURSIVE Norm(_, _)
Norm(m, e) ==
    IF m = 0 THEN Zero
    ELSE IF Abs(m) < MantLo THEN Norm(m * 10, e - 1)
    ELSE IF Abs(m) < MantHi THEN [m |-> m, e |-> e]
    ELSE IF Abs(m) < 10 * MantHi THEN Norm(Sgn(m) * RoundDiv(Abs(m), 10), e + 1)
    ELSE Norm(Sgn(m) * RoundDiv(Abs(m), 100), e + 2)

\* float(i) of an integer, and the decimal literal i * 10^-p.
FromInt(i) == Norm(i, 0)
Dec(i, p) == Norm(i, -p)

One == FromInt(1)

FNeg(a) == [m |-> -a.m, e |-> a.e]

FLt(a, b) ==
    LET sa == Sgn(a.m)
        sb == Sgn(b.m)
    IN IF sa # sb THEN sa < sb
       ELSE IF sa = 0 THEN FALSE
       ELSE IF sa = 1 THEN a.e < b.e \/ (a.e = b.e /\ a.m < b.m)
       ELSE a.e > b.e \/ (a.e = b.e /\ a.m < b.m)

FLe(a, b) == ~FLt(b, a)

\* Python's max(a, b): b only when it is strictly greater.
FMax(a, b) == IF FLt(a, b) THEN b ELSE a

FAdd(a, b) ==
    IF a.m = 0 THEN b
    ELSE IF b.m = 0 THEN a
    ELSE LET hi == IF a.e >= b.e THEN a ELSE b
             lo == IF a.e >= b.e THEN b ELSE a
             d == hi.e - lo.e
         IN IF d > 9 THEN hi
            ELSE IF d <= 1 THEN Norm(hi.m * Pow10(d) + lo.m, lo.e)
            ELSE Norm(hi.m * 10 + Sgn(lo.m) * RoundDiv(Abs(lo.m), Pow10(d - 1)),
                      hi.e - 1)

FSub(a, b) == FAdd(a, FNeg(b))

FMul(a, b) ==
    IF a.m = 0 \/ b.m = 0 THEN Zero
    ELSE LET x == Abs(a.m)
             y == Abs(b.m)
             xh == x \div 10000
             xl == x % 10000
             yh == y \div 10000
             yl == y % 10000
             HH == xh * yh
             C == xh * yl + xl * yh
             LL == xl * yl
             \* floor(x * y / 10^7), x * y = HH * 10^8 + C * 10^4 + LL
             top == HH * 10 + C \div 1000 + ((C % 1000) * 10000 + LL) \div MantLo
         IN Norm(Sgn(a.m) * Sgn(b.m) * top, a.e + b.e + 7)

\* n more decimal digits of the quotient whose digits so far are q, remainder r.
RECURSIVE LongDiv(_, _, _, _)
LongDiv(q, r, y, n) ==
    IF n = 0 THEN q
    ELSE LongDiv(q * 10 + (r * 10) \div y, (r * 10) % y, y, n - 1)

\* a / b for b # 0 (the callers check the divisor first).
FDiv(a, b) ==
    IF a.m = 0 THEN Zero
    ELSE LET x == Abs(a.m)
             y == Abs(b.m)
             n == IF x >= y THEN 8 ELSE 9
             q == LongDiv(x \div y, x % y, y, n)
         IN Norm(Sgn(a.m) * Sgn(b.m) * q, a.e - b.e - n)

\* round(a, nd): the multiple of 10^-nd nearest to a, ties to even.
FRound(a, nd) ==
    IF a.e >= -nd THEN a
    ELSE LET k == -nd - a.e
         IN IF k > 8 THEN Zero
            ELSE Norm(Sgn(a.m) * RoundDiv(Abs(a.m), Pow10(k)), -nd)

\* ---------------------------------------------------------------- math.exp

\* e^1, e^2, e^4, e^8, e^16 to eight digits.
EPowers == << Norm(27182818, -7), Norm(73890561, -7), Norm(54598150, -6),
              Norm(29809580, -4), Norm(88861105, -1) >>

\* e^i for an integer i >= 0: EPowers[bit] is e^(2^(bit-1)), and the last power
\* is repeated for what remains of i.
RECURSIVE PowE(_, _)
PowE(i, bit) ==
    IF i = 0 THEN One
    ELSE IF bit = Len(EPowers) THEN FMul(EPowers[bit], PowE(i - 1, bit))
    ELSE IF i % 2 = 1 THEN FMul(EPowers[bit], PowE(i \div 2, bit + 1))
    ELSE PowE(i \div 2, bit + 1)

\* The integer part of a float x >= 0 below 10^8.
Floor(x) ==
    IF x.m = 0 \/ x.e <= -8 THEN 0
    ELSE IF x.e >= 0 THEN x.m * Pow10(x.e)
    ELSE x.m \div Pow10(-x.e)

\* s plus the sum of f^j / j! from j on, term being f^(j-1) / (j-1)!  (f in
\* [0, 1)), in float arithmetic.
RECURSIVE ExpSeries(_, _, _, _)
RECURSIVE ExpSeriesAdd(_, _, _, _)
ExpSeries(f, j, term, s) ==
    IF term.m = 0 \/ term.e < -18 \/ j > 14 THEN s
    ELSE ExpSeriesAdd(f, j, FDiv(FMul(term, f), FromInt(j)), s)

ExpSeriesAdd(f, j, term, s) == ExpSeries(f, j + 1, term, FAdd(s, term))

\* 1 / (e^i * e^(x - i)) for x >= 0 of integer part i.
ExpNeg(x, i) ==
    FDiv(One, FMul(PowE(i, 1), ExpSeries(FSub(x, FromInt(i)), 1, One, One)))

\* math.exp(y) for y <= 0.
Exp(y) == ExpNeg(FNeg(y), Floor(FNeg(y)))

\* ------------------------------------------------------- core gamma-based IOB

\* User-adjustable defaults: hours, minutes.
DIA == 5
PEAK == 75

Sixty == FromInt(60)

IMax(a, b) == IF a < b THEN b ELSE a

\* What a call produced: a returned value, or a raised ValueError.
Returned(v) == [kind |-> "value", value |-> v]
Raised(msg) == [kind |-> "ValueError", msg |-> msg]

\* The loop of _gamma_cdf_integer_k from m on: for m in range(m, k),
\* term *= x / m (GammaSum), then s += term (GammaAdd).
RECURSIVE GammaSum(_, _, _, _, _)
RECURSIVE GammaAdd(_, _, _, _, _)
GammaSum(m, k, x, term, s) ==
    IF m >= k THEN s
    ELSE GammaAdd(m, k, x, FMul(term, FDiv(x, FromInt(m))), s)

GammaAdd(m, k, x, term, s) == GammaSum(m + 1, k, x, term, FAdd(s, term))

\* Mutant of _gamma_cdf_integer_k: the loop runs over range(1, k + 1).
_gamma_cdf_integer_k_extraTerm(k, x) ==
    IF FLe(x, Zero) THEN Zero
    ELSE FSub(One, FMul(Exp(FNeg(x)), GammaSum(1, k + 1, x, One, One)))

_gamma_cdf_integer_k(k, x) ==
    IF FLe(x, Zero) THEN Zero
    ELSE FSub(One, FMul(Exp(FNeg(x)), GammaSum(1, k, x, One, One)))

\* Mutant of WindowEnd: the hours converted to seconds instead of minutes.
WindowEnd_seconds(DIA_hours) == FMax(One, FMul(DIA_hours, FromInt(3600)))

\* end = max(1.0, DIA_hours * 60.0)
WindowEnd(DIA_hours) == FMax(One, FMul(DIA_hours, Sixty))

\* Mutant of ClampElapsed: abs() in place of the clamp at zero.
ClampElapsed_abs(elapsed_min) ==
    IF FLt(elapsed_min, Zero) THEN FNeg(elapsed_min) ELSE elapsed_min

\* t = max(0.0, float(elapsed_min))
ClampElapsed(elapsed_min) == FMax(Zero, elapsed_min)

\* value, from Ft and FD: 0.0 if FD <= 0.0, else units * max(0.0, 1.0 - Ft / FD).
Remaining(units, Ft, FD) ==
    IF FLe(FD, Zero) THEN Zero
    ELSE FMul(units, FMax(Zero, FSub(One, FDiv(Ft, FD))))

\* value, from k = n + 1 and lam = n / peak.
CurveAt(units, t, end, k, lam) ==
    Remaining(units, _gamma_cdf_integer_k(k, FMul(lam, t)),
              _gamma_cdf_integer_k(k, FMul(lam, end)))

\* The value of a dose of units > 0 at 0 < t < end, under valid parameters.
CurveValue(units, t, end, peak, shape_n) ==
    CurveAt(units, t, end, IMax(1, shape_n) + 1,
            FDiv(FromInt(IMax(1, shape_n)), peak))

\* value, from t and end: all of units at t == 0.0, 0.0 from end on.
ValueAt(units, t, end, peak, shape_n) ==
    IF t = Zero THEN units
    ELSE IF FLe(end, t) THEN Zero
    ELSE CurveValue(units, t, end, peak, shape_n)

\* round(value, 2) if round_result else value
Rounded(value, round_result) == IF round_result THEN FRound(value, 2) ELSE value

iob_exponential_oref(units, elapsed_min, DIA_hours, PEAK_min, shape_n, round_result) ==
    IF FLe(units, Zero) THEN Returned(Zero)
    ELSE IF FLe(DIA_hours, Zero)
    THEN Raised("DIA_hours must be a positive number of hours")
    ELSE IF FLe(PEAK_min, Zero)
    THEN Raised("PEAK_min must be a positive number of minutes")
    ELSE Returned(Rounded(ValueAt(units, ClampElapsed(elapsed_min),
                                  WindowEnd(DIA_hours), PEAK_min, shape_n),
                          round_result))

\* Mutant of InWindow: the lower bound on elapsed is missing.
InWindow_noLowerBound(dose, end) ==
    /\ FLt(Zero, dose.units)
    /\ FLt(dose.elapsed, end)

\* units > 0 and 0.0 <= elapsed < end
InWindow(dose, end) ==
    /\ FLt(Zero, dose.units)
    /\ FLe(Zero, dose.elapsed)
    /\ FLt(dose.elapsed, end)

\* One breakdown row: (float(units), round(float(elapsed), 0), iob).
Row(dose, iob) ==
    [units |-> dose.units, elapsed |-> FRound(dose.elapsed, 0), iob |-> iob]

\* The kept branch of the loop body, r being what iob_exponential_oref produced.
AddKept(acc, dose, r, return_breakdown) ==
    IF r.kind # "value" THEN [acc EXCEPT !.raised = r]
    ELSE [acc EXCEPT
            !.total = FAdd(@, r.value),
            !.breakdown = IF return_breakdown
                          THEN Append(@, Row(dose, FRound(r.value, 2)))
                          ELSE @]

\* The other branch: a row of IOB 0.0 when the breakdown is asked for.
AddSkipped(acc, dose, return_breakdown) ==
    IF return_breakdown
    THEN [acc EXCEPT !.breakdown = Append(@, Row(dose, Zero))]
    ELSE acc

\* Mutant of TotalStep: each contribution is rounded before it is added.
TotalStep_roundEach(acc, dose, end, DIA_hours, PEAK_min, shape_n, return_breakdown) ==
    IF InWindow(dose, end)
    THEN AddKept(acc, dose,
                 iob_exponential_oref(dose.units, dose.elapsed, DIA_hours, PEAK_min,
                                      shape_n, TRUE),
                 return_breakdown)
    ELSE AddSkipped(acc, dose, return_breakdown)

\* Mutant of TotalStep: only the kept doses get a breakdown row.
TotalStep_keptRowsOnly(acc, dose, end, DIA_hours, PEAK_min, shape_n, return_breakdown) ==
    IF InWindow(dose, end)
    THEN AddKept(acc, dose,
                 iob_exponential_oref(dose.units, dose.elapsed, DIA_hours, PEAK_min,
                                      shape_n, FALSE),
                 return_breakdown)
    ELSE acc

\* One pass of the loop body over a dose; acc holds total, breakdown and the error
\* raised so far, if any.
TotalStep(acc, dose, end, DIA_hours, PEAK_min, shape_n, return_breakdown) ==
    IF InWindow(dose, end)
    THEN AddKept(acc, dose,
                 iob_exponential_oref(dose.units, dose.elapsed, DIA_hours, PEAK_min,
                                      shape_n, FALSE),
                 return_breakdown)
    ELSE AddSkipped(acc, dose, return_breakdown)

RECURSIVE TotalLoop(_, _, _, _, _, _, _, _)
TotalLoop(acc, ds, i, end, DIA_hours, PEAK_min, shape_n, return_breakdown) ==
    IF i > Len(ds) \/ acc.raised.kind # "none" THEN acc
    ELSE TotalLoop(TotalStep(acc, ds[i], end, DIA_hours, PEAK_min, shape_n,
                             return_breakdown),
                   ds, i + 1, end, DIA_hours, PEAK_min, shape_n, return_breakdown)

\* The result carries the running total as it stood before the final rounding
\* (raw), beside what the function returns: total, and breakdown when asked.
TotalResult(acc, return_breakdown) ==
    IF acc.raised.kind # "none" THEN acc.raised
    ELSE [kind |-> "value", total |-> FRound(acc.total, 2), raw |-> acc.total,
          with_breakdown |-> return_breakdown, breakdown |-> acc.breakdown]

iob_total_from_elapsed(ds, DIA_hours, PEAK_min, shape_n, return_breakdown) ==
    IF FLe(DIA_hours, Zero)
    THEN Raised("DIA_hours must be a positive number of hours")
    ELSE TotalResult(TotalLoop([total |-> Zero, breakdown |-> << >>,
                                raised |-> [kind |-> "none"]],
                               ds, 1, FMul(DIA_hours, Sixty), DIA_hours, PEAK_min,
                               shape_n, return_breakdown),
                     return_breakdown)

\* A dose: the pair (units, elapsed_min).
Dose(u, e) == [units |-> u, elapsed |-> e]

\* ----------------------------------------------------------------- helpers

\* A command-line token is the text of a number (k = "num", v its float value), a
\* text with colons (k = "colon", parts its pieces between the colons) or any other
\* text (k = "word").  A piece is the text of an integer v (int = TRUE) or not.
NumTok(v) == [k |-> "num", v |-> v, parts |-> << >>]
ColonTok(ps) == [k |-> "colon", v |-> Zero, parts |-> ps]
WordTok == [k |-> "word", v |-> Zero, parts |-> << >>]
IntPart(i) == [int |-> TRUE, v |-> i]
BadPart == [int |-> FALSE, v |-> 0]
HHMM(h, m) == ColonTok(<< IntPart(h), IntPart(m) >>)

\* A datetime is a day number and the seconds since that day's midnight.
SecondsPerDay == 24 * 3600
Seconds(dt) == dt.day * SecondsPerDay + dt.sec

NoneValue == [kind |-> "None"]

\* Mutant of _parse_hhmm_to_elapsed_today_or_yesterday: a time after now is not
\* moved to yesterday.
_parse_hhmm_to_elapsed_today_only(hhmm, now, dia_minutes) ==
    LET parts == IF hhmm.k = "colon" THEN hhmm.parts ELSE << BadPart >>
    IN IF Len(parts) # 2 THEN Raised("Invalid HH:MM time")
       ELSE IF ~parts[1].int \/ ~parts[2].int THEN Raised("Invalid HH:MM time")
       ELSE LET hour == parts[1].v
                minute == parts[2].v
            IN IF ~(0 <= hour /\ hour <= 23)
               THEN Raised("Invalid HH:MM time (hour must be 0-23)")
               ELSE IF ~(0 <= minute /\ minute <= 59)
               THEN Raised("Invalid HH:MM time (minute must be 0-59)")
               ELSE LET when_today == [day |-> now.day,
                                       sec |-> hour * 3600 + minute * 60]
                        elapsed == FDiv(FromInt(Seconds(now) - Seconds(when_today)),
                                        Sixty)
                    IN IF FLe(Zero, elapsed) /\ FLe(elapsed, dia_minutes)
                       THEN Returned(elapsed)
                       ELSE NoneValue

_parse_hhmm_to_elapsed_today_or_yesterday(hhmm, now, dia_minutes) ==
    LET parts == IF hhmm.k = "colon" THEN hhmm.parts ELSE << BadPart >>
    IN IF Len(parts) # 2 THEN Raised("Invalid HH:MM time")
       ELSE IF ~parts[1].int \/ ~parts[2].int THEN Raised("Invalid HH:MM time")
       ELSE LET hour == parts[1].v
                minute == parts[2].v
            IN IF ~(0 <= hour /\ hour <= 23)
               THEN Raised("Invalid HH:MM time (hour must be 0-23)")
               ELSE IF ~(0 <= minute /\ minute <= 59)
               THEN Raised("Invalid HH:MM time (minute must be 0-59)")
               ELSE LET when_today == [day |-> now.day,
                                       sec |-> hour * 3600 + minute * 60]
                        when_yest == [when_today EXCEPT !.day = @ - 1]
                        elapsed ==
                            IF Seconds(when_today) <= Seconds(now)
                            THEN FDiv(FromInt(Seconds(now) - Seconds(when_today)),
                                      Sixty)
                            ELSE FDiv(FromInt(Seconds(now) - Seconds(when_yest)),
                                      Sixty)
                    IN IF FLe(Zero, elapsed) /\ FLe(elapsed, dia_minutes)
                       THEN Returned(elapsed)
                       ELSE NoneValue

\* ':' in tok, and both sides of the first colon are digits only.
_token_is_hhmm(tok) ==
    /\ tok.k = "colon"
    /\ Len(tok.parts) = 2
    /\ \A j \in 1..2 : tok.parts[j].int /\ tok.parts[j].v >= 0

\* One pass of the while loop of parse_pairs, over tokens[i] and tokens[i+1].
PairStep(acc, tokens, i, now, dia_minutes) ==
    IF i + 1 > Len(tokens)
    THEN [acc EXCEPT !.raised =
            Raised("Odd number of positional arguments; doses must be (units, time) pairs.")]
    ELSE IF tokens[i].k # "num"
    THEN [acc EXCEPT !.raised = Raised("Expected units (float)")]
    ELSE LET units == tokens[i].v
             tkn == tokens[i + 1]
         IN IF _token_is_hhmm(tkn)
            THEN LET r == _parse_hhmm_to_elapsed_today_or_yesterday(tkn, now,
                                                                    dia_minutes)
                 IN IF r.kind = "ValueError" THEN [acc EXCEPT !.raised = r]
                    ELSE IF r.kind = "None" THEN acc
                    ELSE [acc EXCEPT !.out = Append(@, Dose(units, r.value))]
            ELSE IF tkn.k # "num"
            THEN [acc EXCEPT !.raised = Raised("Expected elapsed minutes or 'HH:MM'")]
            ELSE IF FLe(Zero, tkn.v) /\ FLe(tkn.v, dia_minutes)
            THEN [acc EXCEPT !.out = Append(@, Dose(units, tkn.v))]
            ELSE acc

RECURSIVE PairLoop(_, _, _, _, _)
PairLoop(acc, tokens, i, now, dia_minutes) ==
    IF i > Len(tokens) \/ acc.raised.kind # "none" THEN acc
    ELSE PairLoop(PairStep(acc, tokens, i, now, dia_minutes), tokens, i + 2, now,
                  dia_minutes)

parse_pairs(tokens, now, dia_hours) ==
    IF FLe(dia_hours, Zero)
    THEN Raised("dia_hours must be a positive number of hours")
    ELSE LET acc == PairLoop([out |-> << >>, raised |-> [kind |-> "none"]],
                             tokens, 1, now, FMul(dia_hours, Sixty))
         IN IF acc.raised.kind # "none" THEN acc.raised ELSE Returned(acc.out)

\* ------------------------------------------------------------ state machine

\* fn: the function called; args: its arguments; result: what it produced
\* ("pending" until the call has run).
VARIABLES fn, args, result

vars == << fn, args, result >>

Pending == [kind |-> "pending"]
Done == result.kind # "pending"

MaxDoses == 3

UnitsVals == { Dec(-1, 0), Zero, Dec(8, 1), Dec(1, 0), Dec(2, 0) }
ElapsedVals == { Dec(-5, 0), Zero, Dec(4, 1), Dec(9, 1), Dec(30, 0), Dec(120, 0),
                 Dec(290, 0), Dec(300, 0), Dec(400, 0) }
DIAVals == { Dec(-3, 0), Zero, Dec(1, 2), FromInt(DIA) }
PEAKVals == { Dec(-10, 0), Zero, FromInt(PEAK) }
ShapeVals == { 0, 3, 10 }

\* The doses of the module docstring's example 2: 1.0 30  2.0 120  0.8 290
Example2 == << Dose(Dec(1, 0), Dec(30, 0)), Dose(Dec(2, 0), Dec(120, 0)),
               Dose(Dec(8, 1), Dec(290, 0)) >>

DoseVals == { Example2[1], Example2[2], Example2[3], Dose(Dec(8, 1), Dec(300, 0)),
              Dose(Dec(1, 0), Dec(-5, 0)), Dose(Zero, Dec(30, 0)) }

SeqsUpTo(S, n) == UNION { [1..k -> S] : k \in 0..n }

InitOref ==
    /\ fn = "iob_exponential_oref"
    /\ args \in [units : UnitsVals, elapsed_min : ElapsedVals, DIA_hours : DIAVals,
                 PEAK_min : PEAKVals, shape_n : ShapeVals, round_result : BOOLEAN]
    /\ result = Pending

InitTotal ==
    /\ fn = "iob_total_from_elapsed"
    /\ args \in [doses : SeqsUpTo(DoseVals, MaxDoses),
                 DIA_hours : { Zero, FromInt(DIA) },
                 PEAK_min : { Zero, FromInt(PEAK) },
                 shape_n : { 3 }, return_breakdown : BOOLEAN]
    /\ result = Pending

Call_iob_exponential_oref ==
    /\ fn = "iob_exponential_oref"
    /\ ~Done
    /\ result' = iob_exponential_oref(args.units, args.elapsed_min, args.DIA_hours,
                                      args.PEAK_min, args.shape_n, args.round_result)
    /\ UNCHANGED << fn, args >>

Call_iob_total_from_elapsed ==
    /\ fn = "iob_total_from_elapsed"
    /\ ~Done
    /\ result' = iob_total_from_elapsed(args.doses, args.DIA_hours, args.PEAK_min,
                                        args.shape_n, args.return_breakdown)
    /\ UNCHANGED << fn, args >>

MaxTokens == 4

Clock(h, m, sec) == [day |-> 10, sec |-> h * 3600 + m * 60 + sec]

HHMMVals ==
    { HHMM(h, m) : h \in 0..23, m \in { 0, 30, 59 } }
        \cup { HHMM(24, 0), HHMM(12, 99), HHMM(-1, 30), NumTok(FromInt(30)), WordTok,
               ColonTok(<< IntPart(1), IntPart(2), IntPart(3) >>),
               ColonTok(<< IntPart(12), BadPart >>) }

NowVals == { Clock(0, 0, 0), Clock(0, 0, 30), Clock(12, 0, 0), Clock(12, 45, 30),
             Clock(23, 59, 59) }

TokenVals == { NumTok(FromInt(2)), NumTok(FromInt(30)), NumTok(FromInt(400)),
               HHMM(11, 30), HHMM(12, 30), HHMM(12, 99), WordTok }

InitHHMM ==
    /\ fn = "_parse_hhmm_to_elapsed_today_or_yesterday"
    /\ args \in [hhmm : HHMMVals, now : NowVals,
                 dia_minutes : { Dec(6, 1), FromInt(300), FromInt(1500) }]
    /\ result = Pending

InitPairs ==
    /\ fn = "parse_pairs"
    /\ args \in [tokens : SeqsUpTo(TokenVals, MaxTokens),
                 now : { Clock(12, 0, 0), Clock(12, 45, 30) },
                 dia_hours : { Zero, FromInt(DIA) }]
    /\ result = Pending

Call_parse_hhmm ==
    /\ fn = "_parse_hhmm_to_elapsed_today_or_yesterday"
    /\ ~Done
    /\ result' = _parse_hhmm_to_elapsed_today_or_yesterday(args.hhmm, args.now,
                                                           args.dia_minutes)
    /\ UNCHANGED << fn, args >>

Call_parse_pairs ==
    /\ fn = "parse_pairs"
    /\ ~Done
    /\ result' = parse_pairs(args.tokens, args.now, args.dia_hours)
    /\ UNCHANGED << fn, args >>

InitParse == InitHHMM \/ InitPairs
NextParse == Call_parse_hhmm \/ Call_parse_pairs

Init == InitOref \/ InitTotal \/ InitParse
Next ==
    \/ Call_iob_exponential_oref
    \/ Call_iob_total_from_elapsed
    \/ NextParse

Spec == Init /\ [][Next]_vars
SpecOref == InitOref /\ [][Call_iob_exponential_oref]_vars
SpecTotal == InitTotal /\ [][Call_iob_total_from_elapsed]_vars
SpecParse == InitParse /\ [][NextParse]_vars

\* ------------------------------------------------------------------ claims

OrefDone == fn = "iob_exponential_oref" /\ Done
TotalDone == fn = "iob_total_from_elapsed" /\ Done

\* DIA_hours > 0 and PEAK_min > 0
ValidParams == FLt(Zero, args.DIA_hours) /\ FLt(Zero, args.PEAK_min)

\* C1: iob_exponential_oref raises ValueError in every call with DIA_hours <= 0 or
\* PEAK_min <= 0, whatever the other arguments are.
C1_OrefRaisesOnInvalidParams ==
    (OrefDone /\ ~ValidParams) => result.kind = "ValueError"

\* C2: iob_total_from_elapsed raises ValueError for every dose list, the empty one
\* included, whenever DIA_hours <= 0 or PEAK_min <= 0.
C2_TotalRaisesOnInvalidParams ==
    (TotalDone /\ ~ValidParams) => result.kind = "ValueError"

\* C3 as stated: under valid parameters iob_exponential_oref returns 0.0 whenever
\* elapsed_min >= DIA_hours * 60, durations under one minute included.
C3_ZeroFromDIA ==
    (OrefDone /\ ValidParams /\ FLe(FMul(args.DIA_hours, Sixty), args.elapsed_min))
        => result = Returned(Zero)

\* C3 as amended: under valid parameters iob_exponential_oref returns 0.0 whenever
\* elapsed_min >= max(1.0, DIA_hours * 60): the window never ends before one minute.
C3_ZeroFromWindowEnd ==
    (OrefDone /\ ValidParams
        /\ FLe(One, args.elapsed_min)
        /\ FLe(FMul(args.DIA_hours, Sixty), args.elapsed_min))
        => result = Returned(Zero)

\* A positive dose, a duration under one minute, one minute or more elapsed.
C3_Witness ==
    /\ OrefDone /\ ValidParams
    /\ FLt(Zero, args.units)
    /\ FLt(FMul(args.DIA_hours, Sixty), One)
    /\ FLe(One, args.elapsed_min)
    /\ result = Returned(Zero)

\* The doses the aggregation keeps: units > 0 and 0 <= elapsed < DIA_hours * 60.
KeptDoses ==
    SelectSeq(args.doses,
              LAMBDA d : /\ d.units.m > 0
                         /\ d.elapsed.m >= 0
                         /\ FLt(d.elapsed, FMul(args.DIA_hours, Sixty)))

\* The unrounded single-dose value of a dose under the call's parameters.
RawOf(d) ==
    iob_exponential_oref(d.units, d.elapsed, args.DIA_hours, args.PEAK_min,
                         args.shape_n, FALSE).value

\* The same, rounded to two decimals by the single-dose call itself.
RoundedOf(d) ==
    iob_exponential_oref(d.units, d.elapsed, args.DIA_hours, args.PEAK_min,
                         args.shape_n, TRUE).value

\* 0.0 + f(ds[1]) + ... + f(ds[n]), added left to right.
RECURSIVE SumOver(_, _, _)
SumOver(f(_), ds, n) ==
    IF n = 0 THEN Zero ELSE FAdd(SumOver(f, ds, n - 1), f(ds[n]))

\* C4: under valid parameters the total is round(S, 2), S being the sum in input
\* order of the unrounded single-dose values of exactly the kept doses.
C4_TotalRoundsOnce ==
    (TotalDone /\ ValidParams)
        => LET S == SumOver(RawOf, KeptDoses, Len(KeptDoses))
           IN /\ result.kind = "value"
              /\ result.raw = S
              /\ result.total = FRound(S, 2)

\* Two doses or more are kept, and rounding each before adding would have given
\* another total.
C4_Witness ==
    /\ TotalDone /\ ValidParams
    /\ Len(KeptDoses) >= 2
    /\ result.kind = "value"
    /\ result.total # FRound(SumOver(RoundedOf, KeptDoses, Len(KeptDoses)), 2)

RemoveAt(ds, i) == [j \in 1..(Len(ds) - 1) |-> IF j < i THEN ds[j] ELSE ds[j + 1]]

\* elapsed >= DIA_hours * 60 or elapsed < 0
OutOfWindow(d) ==
    FLe(FMul(args.DIA_hours, Sixty), d.elapsed) \/ FLt(d.elapsed, Zero)

TotalWithout(i) ==
    iob_total_from_elapsed(RemoveAt(args.doses, i), args.DIA_hours, args.PEAK_min,
                           args.shape_n, args.return_breakdown)

\* C5: under valid parameters a dose with elapsed >= DIA_hours * 60 or elapsed < 0
\* raises nothing and adds exactly 0: the call returns what it returns for the list
\* without that dose, and the dose's breakdown row, when asked for, has IOB 0.0.
C5_OutOfWindowAddsZero ==
    (TotalDone /\ ValidParams)
        => \A i \in 1..Len(args.doses) :
              OutOfWindow(args.doses[i])
                  => LET without == TotalWithout(i)
                     IN /\ result.kind = "value"
                        /\ result.raw = without.raw
                        /\ result.total = without.total
                        /\ args.return_breakdown
                               => /\ result.breakdown[i].iob = Zero
                                  /\ RemoveAt(result.breakdown, i) = without.breakdown

\* A kept dose between a positive dose past the window and a positive dose of
\* negative elapsed time, breakdown asked for.
C5_Witness ==
    /\ TotalDone /\ ValidParams /\ args.return_breakdown
    /\ Len(KeptDoses) >= 1
    /\ \E i, j \in 1..Len(args.doses) :
          /\ args.doses[i].units.m > 0 /\ args.doses[j].units.m > 0
          /\ FLe(FMul(args.DIA_hours, Sixty), args.doses[i].elapsed)
          /\ FLt(args.doses[j].elapsed, Zero)
    /\ FLt(Zero, result.raw)

\* C6: under valid parameters the breakdown asked for has one row per input dose,
\* in input order, row i carrying the units of dose i.
C6_BreakdownRowPerDose ==
    (TotalDone /\ ValidParams /\ args.return_breakdown)
        => /\ result.kind = "value"
           /\ Len(result.breakdown) = Len(args.doses)
           /\ \A i \in 1..Len(args.doses) :
                 result.breakdown[i].units = args.doses[i].units

\* A list of a kept dose, a dose out of the window and a dose of amount 0.
C6_Witness ==
    /\ TotalDone /\ ValidParams /\ args.return_breakdown
    /\ Len(args.doses) = 3
    /\ Len(KeptDoses) = 1
    /\ \E i \in 1..3 : args.doses[i].units = Zero
    /\ \E i \in 1..3 : args.doses[i].units.m > 0 /\ OutOfWindow(args.doses[i])
    /\ Len(result.breakdown) = 3

\* The call of example 2: 1.0 30  2.0 120  0.8 290 with DIA 5, PEAK 75, n 3.
Example2Done ==
    /\ TotalDone
    /\ args.doses = Example2
    /\ args.DIA_hours = FromInt(DIA)
    /\ args.PEAK_min = FromInt(PEAK)
    /\ args.shape_n = 3

\* C7 as stated: in example 2 the third dose (290 min) is outside the 300-minute
\* window and contributes 0: the running total is the sum of the first two raw
\* contributions, and the total is that sum rounded.
C7_ThirdDoseContributesZero ==
    Example2Done
        => /\ result.raw = SumOver(RawOf, Example2, 2)
           /\ result.total = FRound(SumOver(RawOf, Example2, 2), 2)

\* C7 as amended: in example 2 the third dose (290 min) is inside the 300-minute
\* window and adds its raw contribution, between 0.0006 and 0.0007 U, shown as 0.0
\* in the breakdown; the total is the rounded sum of all three raw contributions,
\* 1.55, the same number as the rounded sum of the first two.
C7_ThirdDoseInsideWindow ==
    Example2Done
        => /\ FLt(Example2[3].elapsed, FMul(args.DIA_hours, Sixty))
           /\ FLt(Dec(6, 4), RawOf(Example2[3]))
           /\ FLt(RawOf(Example2[3]), Dec(7, 4))
           /\ result.raw = SumOver(RawOf, Example2, 3)
           /\ result.total = FRound(SumOver(RawOf, Example2, 3), 2)
           /\ result.total = Dec(155, 2)
           /\ result.total = FRound(SumOver(RawOf, Example2, 2), 2)
           /\ args.return_breakdown => result.breakdown[3].iob = Zero

C7_Witness ==
    /\ Example2Done /\ args.return_breakdown
    /\ result.kind = "value"
    /\ FLt(SumOver(RawOf, Example2, 2), result.raw)

\* C8: for units > 0 and valid parameters, iob_exponential_oref with
\* round_result=False returns exactly units when elapsed_min is 0 or negative.
C8_FullAmountAtZero ==
    (OrefDone /\ ValidParams /\ FLt(Zero, args.units) /\ ~args.round_result
        /\ FLe(args.elapsed_min, Zero))
        => result = Returned(args.units)

\* A dose of 0.8 U "given in the future", unrounded.
C8_Witness ==
    /\ OrefDone /\ ValidParams /\ ~args.round_result
    /\ args.units = Dec(8, 1)
    /\ FLt(args.elapsed_min, Zero)
    /\ result = Returned(args.units)

\* What the call would have returned at elapsed time t2, all else equal.
OrefAt(t2) ==
    iob_exponential_oref(args.units, t2, args.DIA_hours, args.PEAK_min,
                         args.shape_n, args.round_result)

\* C9: for units > 0, valid parameters and 0 < t1 < t2 < DIA_hours * 60, the value
\* at t1 is at least the value at t2, and every value lies in [0, units].
C9_MonotoneDecay ==
    (OrefDone /\ ValidParams /\ FLt(Zero, args.units)
        /\ FLt(Zero, args.elapsed_min)
        /\ FLt(args.elapsed_min, FMul(args.DIA_hours, Sixty)))
        => /\ result.kind = "value"
           /\ FLe(Zero, result.value)
           /\ FLe(result.value, args.units)
           /\ \A t2 \in ElapsedVals :
                 (FLt(args.elapsed_min, t2) /\ FLt(t2, FMul(args.DIA_hours, Sixty)))
                     => FLe(OrefAt(t2).value, result.value)

\* A token 'HH:MM' with hour 0-23 and minute 0-59.
ValidHHMM(tok) ==
    /\ tok.k = "colon" /\ Len(tok.parts) = 2
    /\ tok.parts[1].int /\ tok.parts[1].v \in 0..23
    /\ tok.parts[2].int /\ tok.parts[2].v \in 0..59

\* Seconds from the clock time of tok to now: the time today if it is not after
\* now, the time yesterday otherwise.
ClockElapsedSeconds(tok, now) ==
    LET clock == (tok.parts[1].v * 60 + tok.parts[2].v) * 60
    IN IF clock <= now.sec THEN now.sec - clock ELSE now.sec + SecondsPerDay - clock

\* The elapsed minutes of a well-formed time token, HH:MM or plain minutes.
TimeElapsed(tok, now) ==
    IF tok.k = "num" THEN tok.v
    ELSE FDiv(FromInt(ClockElapsedSeconds(tok, now)), Sixty)

\* A token list of (number, time) pairs whose times are minutes or valid HH:MM.
WellFormed(tokens) ==
    /\ Len(tokens) % 2 = 0
    /\ \A i \in 1..Len(tokens) :
          IF i % 2 = 1 THEN tokens[i].k = "num"
          ELSE tokens[i].k = "num" \/ ValidHHMM(tokens[i])

\* The pairs of tokens whose elapsed time is within [0, dia_minutes], in order.
RECURSIVE PairsWithin(_, _, _, _)
PairsWithin(tokens, n, now, dia_minutes) ==
    IF n = 0 THEN << >>
    ELSE LET e == TimeElapsed(tokens[2 * n], now)
             before == PairsWithin(tokens, n - 1, now, dia_minutes)
         IN IF FLe(Zero, e) /\ FLe(e, dia_minutes)
            THEN Append(before, Dose(tokens[2 * n - 1].v, e))
            ELSE before

\* C10: for a valid 'HH:MM' and any now, the elapsed time is now minus that clock
\* time today if it is not after now, else now minus that clock time yesterday, so
\* it is in [0, 1440) minutes; it is returned when within [0, dia_minutes] and
\* None is returned otherwise; parse_pairs then omits the pair without an error and
\* keeps the other pairs in input order.
C10_ClockTimesTodayOrYesterday ==
    /\ (fn = "_parse_hhmm_to_elapsed_today_or_yesterday" /\ Done
            /\ ValidHHMM(args.hhmm))
        => LET e == TimeElapsed(args.hhmm, args.now)
           IN /\ FLe(Zero, e) /\ FLt(e, FromInt(1440))
              /\ result = IF FLe(e, args.dia_minutes) THEN Returned(e) ELSE NoneValue
              /\ FLe(FromInt(1440), args.dia_minutes) => result.kind = "value"
    /\ (fn = "parse_pairs" /\ Done /\ FLt(Zero, args.dia_hours)
            /\ WellFormed(args.tokens))
        => result = Returned(PairsWithin(args.tokens, Len(args.tokens) \div 2,
                                         args.now, FMul(args.dia_hours, Sixty)))

\* Two pairs with clock times: 12:30 is after now and falls on yesterday, older
\* than DIA, and is omitted; 11:30 is kept.
C10_Witness ==
    /\ fn = "parse_pairs" /\ Done
    /\ FLt(Zero, args.dia_hours)
    /\ Len(args.tokens) = 4
    /\ args.tokens[2] = HHMM(12, 30) /\ args.tokens[4] = HHMM(11, 30)
    /\ args.now.sec < 12 * 3600 + 30 * 60
    /\ result.kind = "value"
    /\ Len(result.value) = 1
    /\ result.value[1].units = args.tokens[3].v

====
